---- MODULE Spec2Model ----
(***************************************************************************)
(* Model of runtime_src/core/common/api/aie/xrt_graph.cpp: the graph and   *)
(* profiling handle registries, the graph_impl / profiling_impl objects,   *)
(* the object-oriented wrappers and the C entry points with their          *)
(* exception translation.  The device (xrt_core::device) is external: each *)
(* of its calls either succeeds or raises a failure, chosen freely.        *)
(***************************************************************************)
EXTENDS Integers, Sequences, FiniteSets, TLC

\* ------------------------------------------------------------------ bounds
\* Heap addresses a graph_impl can be allocated at (the C graph handle is
\* the object's address).
MaxGraphAddrs == 2
\* Graph handles the device can have open at once.
MaxDevGraphs == 2
\* Profiling handles the device can have active at once.
MaxProfHandles == 2
\* Device handles xrtDeviceOpen can return.
MaxDevHandles == 1
\* xrt::aie::profiling objects the object-oriented caller holds.
MaxProfObjs == 1
\* Threads that run a graph operation beside the calling thread.
MaxThreads == 1
\* GMIO ports of the device.
MaxPorts == 2

\* ------------------------------------------------------------------ constants
EINVAL == 22
XRT_NULL_HANDLE == 0
invalid_handle == -1
\* std::numeric_limits<uint64_t>::max(), as four 16-bit limbs (TLC integers
\* are 32 bits wide).
UINT64_MAX == <<65535, 65535, 65535, 65535>>
U64(n) == <<0, 0, 0, n>>

Addr == 1..MaxGraphAddrs
GraphHandleArgs == Addr \cup {XRT_NULL_HANDLE}
DevGraphHandles == 1..MaxDevGraphs
ProfHandles == 0..(MaxProfHandles - 1)
ProfHandleArgs == ProfHandles \cup {invalid_handle}
DevHandles == 1..MaxDevHandles
DevHandleArgs == DevHandles \cup {XRT_NULL_HANDLE}
ProfObjs == 1..MaxProfObjs
Threads == 1..MaxThreads
Ports == 1..MaxPorts

\* Sample inputs of the calls.
AccessModes == {"primary", "exclusive", "shared"}
Timeouts == {0, 100}
Cycles == {0, 8}
Iterations == {10}
Options == {1, 4}
\* Values the device reports.
CounterValues == {U64(7), UINT64_MAX}
WaitStatus == {0, -62}

\* ------------------------------------------------------------------ failures
NoExc == [kind |-> "none", code |-> 0]
XrtError(c) == [kind |-> "xrt_core::error", code |-> c]
StdException == [kind |-> "std::exception", code |-> 0]
\* What a failing device call raises: a structured failure carrying a
\* native code (-5, an I/O error, stands for any of them), or a generic one.
DevFailures == {XrtError(-5), StdException}
DevOutcomes == {NoExc} \cup DevFailures
\* An outcome is drawn for a device call only on the paths that make the call.
OutcomesIf(called) == IF called THEN DevOutcomes ELSE {NoExc}

\* xrt_core::error::get_code (core/common/error.h)
get_code(ex) == ex.code

\* One call of a device operation: fn with handle h and argument arg; live
\* tells whether the device held h (open graph, active counter) at the call,
\* out how the call ended and res what it returned.
DevCall(fn, h, arg, live, out, res) ==
  [fn |-> fn, h |-> h, arg |-> arg, live |-> live, out |-> out, res |-> res]

VARIABLES
  devices,         \* device handles xrtDeviceOpen returned (open devices)
  graph_heap,      \* address -> graph_impl {device, handle}, the live objects
  graph_cache,     \* static std::map<xrtGraphHandle, shared_ptr<graph_impl>>
  oo_graphs,       \* addresses of the graph_impl held by xrt::graph objects
  inflight,        \* thread -> the graph operation it is inside of: the
                   \* shared_ptr it resolved, its position, its device calls
  profiling_cache, \* static std::map<int, shared_ptr<profiling_impl>>
  oo_prof,         \* xrt::aie::profiling objects: slot -> profiling_impl or absent
  dev_graphs,      \* device side: graph handles open
  dev_prof,        \* device side: profiling handles active
  pending,         \* device side: GMIO ports with a submitted transfer that is
                   \* not complete
  errno,           \* the process error code
  terminated,      \* std::terminate was called
  closed_handles,  \* history: graph handles xrtGraphClose removed
  stale_handles,   \* history: those of them no later open returned again
  issued_prof,     \* history: profiling handles xrtAIEStartProfiling returned
  stopped_prof,    \* history: those stopped and not issued again since
  oo_prof_hist,    \* history: slot -> "fresh", "started", "stopped" or "lost"
  oo_prof_unstopped, \* history: slot -> the handles the device issued to the
                   \* object that were not passed to its stop_profiling since
  last             \* history: the last call, its result and its device calls

vars == <<devices, graph_heap, graph_cache, oo_graphs, inflight, profiling_cache,
          oo_prof, dev_graphs, dev_prof, pending, errno, terminated, closed_handles,
          stale_handles, issued_prof, stopped_prof, oo_prof_hist, oo_prof_unstopped,
          last>>

graphVars == <<graph_heap, graph_cache, oo_graphs, inflight, dev_graphs,
               closed_handles, stale_handles>>
profVars == <<profiling_cache, oo_prof, dev_prof, issued_prof, stopped_prof,
              oo_prof_hist, oo_prof_unstopped>>
devVars == <<devices, pending>>

\* ------------------------------------------------------------------ helpers
Range(f) == {f[x] : x \in DOMAIN f}
Put(f, k, v) == [x \in (DOMAIN f) \cup {k} |-> IF x = k THEN v ELSE f[x]]
Drop(f, k) == [x \in (DOMAIN f) \ {k} |-> f[x]]
EmptyMap == [x \in {} |-> 0]

\* The record every call leaves in last.
\*   op, surface   the entry point and its API surface ("C" or "OO")
\*   h, arg        its handle argument and its numeric argument
\*   rtype, ret    the type and value returned ("none" when it raised)
\*   exc           the failure that reached the caller
\*   caught        the failure a C entry point caught at its boundary
\*   msgs          diagnostic messages sent during the call
\*   wrote         whether the call assigned errno
\*   dev           the device calls made, in order
\*   tag           the history of h at the call (known, closed, stale, hist,
\*                 unstopped)
Call(op, surface, h, arg, rtype, ret, exc, caught, msgs, wrote, dev, tag) ==
  [op |-> op, surface |-> surface, h |-> h, arg |-> arg, rtype |-> rtype,
   ret |-> ret, exc |-> exc, caught |-> caught, msgs |-> msgs, wrote |-> wrote,
   dev |-> dev, tag |-> tag]

NoTag == [known |-> FALSE, closed |-> FALSE, stale |-> FALSE, hist |-> "none",
          unstopped |-> {}]
\* History of a C graph handle: a key of the registry, removed by an earlier
\* xrtGraphClose, and not returned by an open since.
GraphTag(h) == [known |-> h \in DOMAIN graph_cache, closed |-> h \in closed_handles,
                stale |-> h \in stale_handles, hist |-> "none",
                unstopped |-> {}]
\* Profiling history of a C handle: never issued, issued and not stopped
\* since, or stopped and not issued again.
ProfTag(h) == [known |-> h \in DOMAIN profiling_cache, closed |-> FALSE, stale |-> FALSE,
               hist |-> IF h \notin issued_prof THEN "fresh"
                        ELSE IF h \in stopped_prof THEN "stopped" ELSE "started",
               unstopped |-> {}]
\* Profiling history of an xrt::aie::profiling object: "fresh" before any
\* start succeeded, "started" after one, "stopped" after a stop succeeded,
\* "lost" when a later start overwrote the handle with invalid_handle; and
\* the handles issued to it that no stop_profiling call was given yet.
ObjTag(o) == [known |-> TRUE, closed |-> FALSE, stale |-> FALSE,
              hist |-> oo_prof_hist[o], unstopped |-> oo_prof_unstopped[o]]

NoCall == Call("none", "none", XRT_NULL_HANDLE, 0, "void", "void", NoExc, NoExc, 0,
               FALSE, <<>>, NoTag)

\* send_exception_message / xrt_core::send_exception_message: one message.
send_exception_message(ex) == 1

\* The two catch clauses every C entry point ends with:
\*   catch (const xrt_core::error& ex) { send(ex.what()); errno = ex.get_code(); }
\*   catch (const std::exception& ex)  { send(ex.what()); }
CatchMsgs(ex) == IF ex.kind = "none" THEN 0 ELSE send_exception_message(ex)

CatchWrites(ex) == ex.kind = "xrt_core::error"

\* Variant: the generic catch clause assigns errno the (empty) code too.
CatchErrno_every_failure(ex) == IF ex.kind # "none" THEN get_code(ex) ELSE errno

CatchErrno(ex) == IF CatchWrites(ex) THEN get_code(ex) ELSE errno

\* A C entry point returns: ret on the normal path, sentinel after a catch.
CReturn(op, h, arg, rtype, ret, sentinel, ex, dev, tag) ==
  /\ last' = Call(op, "C", h, arg, rtype, IF ex.kind = "none" THEN ret ELSE sentinel,
                  NoExc, ex, CatchMsgs(ex), CatchWrites(ex), dev, tag)
  /\ errno' = CatchErrno(ex)

\* An object-oriented method returns ret or lets the failure propagate.
OOReturn(op, h, arg, rtype, ret, ex, dev, tag) ==
  /\ last' = Call(op, "OO", h, arg, rtype, IF ex.kind = "none" THEN ret ELSE "none",
                  ex, NoExc, 0, FALSE, dev, tag)
  /\ errno' = errno

\* The process runs and its caller is between two calls.
Ready == ~terminated /\ last.op = "none"

\* The xrt_core::device behind a device handle or an xrt::device: the model
\* has one accelerator, which every handle and every object refers to.
core_device(dhdl) == "xrt_core::device"

\* xrt_core::device_int::get_core_device(dhdl)
get_core_device(dhdl) ==
  IF dhdl \in devices THEN NoExc ELSE XrtError(-EINVAL)


Terminate == [kind |-> "terminate", code |-> 0]

\* A call during which std::terminate ended the process: it never returns.
Aborted(op, surface, h, arg, rtype, dev, tag) ==
  /\ last' = Call(op, surface, h, arg, rtype, "none", Terminate, NoExc, 0, FALSE, dev, tag)
  /\ errno' = errno

\* ------------------------------------------------------------------ graph_impl
\* graph_impl::graph_impl(dev, ghdl)
graph_impl(dev, ghdl) == [device |-> dev, handle |-> ghdl]

\* graph_impl::get_handle
get_handle(a) == graph_heap[a].handle

\* Variant: a destructor that leaves the graph open on the device.
graph_impl_dtor_noclose(a, out) ==
  [dev |-> <<>>, dev_graphs |-> dev_graphs, terminated |-> FALSE]

\* graph_impl::~graph_impl: device->close_graph(handle), outside any try; the
\* destructor is noexcept, so a failure of the device ends the process.
graph_impl_dtor(a, out) ==
  [dev |-> <<DevCall("close_graph", get_handle(a), 0, get_handle(a) \in dev_graphs,
                     out, "void")>>,
   dev_graphs |-> IF out = NoExc THEN dev_graphs \ {get_handle(a)} ELSE dev_graphs,
   terminated |-> out # NoExc]

\* graph_impl::reset
graph_impl_reset(a, out) ==
  DevCall("reset_graph", get_handle(a), 0, get_handle(a) \in dev_graphs, out, "void")

\* graph_impl::get_timestamp
graph_impl_get_timestamp(a, out, v) ==
  DevCall("get_timestamp", get_handle(a), 0, get_handle(a) \in dev_graphs, out, v)

\* graph_impl::run
graph_impl_run(a, iterations, out) ==
  DevCall("run_graph", get_handle(a), iterations, get_handle(a) \in dev_graphs, out, "void")

\* graph_impl::wait(int timeout)
graph_impl_wait_timeout(a, timeout, out, v) ==
  DevCall("wait_graph_done", get_handle(a), timeout, get_handle(a) \in dev_graphs, out, v)

\* graph_impl::wait(uint64_t cycle)
graph_impl_wait_cycle(a, cycle, out) ==
  DevCall("wait_graph", get_handle(a), cycle, get_handle(a) \in dev_graphs, out, "void")

\* graph_impl::suspend
graph_impl_suspend(a, out) ==
  DevCall("suspend_graph", get_handle(a), 0, get_handle(a) \in dev_graphs, out, "void")

\* graph_impl::resume
graph_impl_resume(a, out) ==
  DevCall("resume_graph", get_handle(a), 0, get_handle(a) \in dev_graphs, out, "void")

\* graph_impl::end
graph_impl_end(a, cycle, out) ==
  DevCall("end_graph", get_handle(a), cycle, get_handle(a) \in dev_graphs, out, "void")

\* graph_impl::update_rtp
graph_impl_update_rtp(a, out) ==
  DevCall("update_graph_rtp", get_handle(a), 0, get_handle(a) \in dev_graphs, out, "void")

\* graph_impl::read_rtp
graph_impl_read_rtp(a, out) ==
  DevCall("read_graph_rtp", get_handle(a), 0, get_handle(a) \in dev_graphs, out, "void")

\* ------------------------------------------------------------------ registry
\* Variant: a lookup that hands out some registered graph whatever the handle.
get_graph_hdl_first(graph_handle) ==
  IF graph_cache = EmptyMap
  THEN [exc |-> XrtError(-EINVAL), ptr |-> XRT_NULL_HANDLE]
  ELSE [exc |-> NoExc, ptr |-> CHOOSE a \in Range(graph_cache) : TRUE]

\* Variant: a lookup that fails with a generic failure, without a code.
get_graph_hdl_generic(graph_handle) ==
  IF graph_handle \in DOMAIN graph_cache
  THEN [exc |-> NoExc, ptr |-> graph_cache[graph_handle]]
  ELSE [exc |-> StdException, ptr |-> XRT_NULL_HANDLE]

\* get_graph_hdl: find in graph_cache, or throw xrt_core::error(-EINVAL).
get_graph_hdl(graph_handle) ==
  IF graph_handle \in DOMAIN graph_cache
  THEN [exc |-> NoExc, ptr |-> graph_cache[graph_handle]]
  ELSE [exc |-> XrtError(-EINVAL), ptr |-> XRT_NULL_HANDLE]

\* Variant: an operation in flight holds no share of the object (a raw
\* pointer taken from the registry).
shared_owner_registry_only(a, cache, oo, fl) == a \in Range(cache) \cup oo

\* The std::shared_ptr<graph_impl> ownership: the object at a has an owner
\* among the registry entries cache, the xrt::graph objects oo and the
\* operations in flight fl (get_graph_hdl returns the shared_ptr by value,
\* which the operation holds until it returns).
shared_owner(a, cache, oo, fl) ==
  a \in Range(cache) \cup oo \cup {fl[t].ptr : t \in DOMAIN fl}

\* Variant: a close that leaves the registry and the graph alone.
close_graph_keep(hdl, out) ==
  [exc |-> IF hdl \in DOMAIN graph_cache THEN NoExc ELSE StdException,
   cache |-> graph_cache, heap |-> graph_heap,
   dev |-> <<>>, dev_graphs |-> dev_graphs, terminated |-> FALSE]

\* close_graph: graph_cache.erase(hdl), std::runtime_error when nothing was
\* erased.  Erasing drops the registry's shared_ptr: the graph_impl is
\* destroyed when no xrt::graph and no operation in flight holds it too.
close_graph(hdl, out) ==
  IF hdl \notin DOMAIN graph_cache
  THEN [exc |-> StdException, cache |-> graph_cache, heap |-> graph_heap,
        dev |-> <<>>, dev_graphs |-> dev_graphs, terminated |-> FALSE]
  ELSE LET a == graph_cache[hdl]
           cache == Drop(graph_cache, hdl)
       IN IF shared_owner(a, cache, oo_graphs, inflight)
          THEN [exc |-> NoExc, cache |-> cache, heap |-> graph_heap,
                dev |-> <<>>, dev_graphs |-> dev_graphs, terminated |-> FALSE]
          ELSE LET d == graph_impl_dtor(a, out)
               IN [exc |-> NoExc, cache |-> cache, heap |-> Drop(graph_heap, a),
                   dev |-> d.dev, dev_graphs |-> d.dev_graphs,
                   terminated |-> d.terminated]


\* ------------------------------------------------------------------ C graph API
\* open_graph(xrtDeviceHandle, ...) then graph_cache[hdl.get()] = hdl, for the
\* access mode am of the entry point op.
xrtGraphOpenMode(op, am) ==
  /\ Ready
  /\ \E dhdl \in DevHandleArgs :
       LET dex == get_core_device(dhdl)
       IN IF dex # NoExc
          THEN /\ CReturn(op, XRT_NULL_HANDLE, dhdl, "handle", XRT_NULL_HANDLE,
                          XRT_NULL_HANDLE, dex, <<>>, NoTag)
               /\ UNCHANGED graphVars
          ELSE \/ \E f \in DevFailures :
                    /\ CReturn(op, XRT_NULL_HANDLE, dhdl, "handle", XRT_NULL_HANDLE,
                               XRT_NULL_HANDLE, f,
                               <<DevCall("open_graph", XRT_NULL_HANDLE, am, FALSE, f, "void")>>, NoTag)
                    /\ UNCHANGED graphVars
               \/ \E handle \in DevGraphHandles \ dev_graphs,
                     a \in Addr \ DOMAIN graph_heap :
                    /\ dev_graphs' = dev_graphs \cup {handle}
                    /\ graph_heap' = Put(graph_heap, a, graph_impl(core_device(dhdl), handle))
                    /\ graph_cache' = Put(graph_cache, a, a)
                    /\ stale_handles' = stale_handles \ {a}
                    /\ CReturn(op, XRT_NULL_HANDLE, dhdl, "handle", a, XRT_NULL_HANDLE,
                               NoExc, <<DevCall("open_graph", handle, am, FALSE, NoExc, handle)>>,
                               GraphTag(a))
                    /\ UNCHANGED <<oo_graphs, inflight, closed_handles>>
  /\ UNCHANGED <<profVars, devVars, terminated>>

xrtGraphOpen == xrtGraphOpenMode("xrtGraphOpen", "primary")

\* Variant: the exclusive open asks the device for primary access.
xrtGraphOpenExclusive_primary == xrtGraphOpenMode("xrtGraphOpenExclusive", "primary")

xrtGraphOpenExclusive == xrtGraphOpenMode("xrtGraphOpenExclusive", "exclusive")

xrtGraphOpenShared == xrtGraphOpenMode("xrtGraphOpenShared", "shared")

xrtGraphClose ==
  /\ Ready
  /\ \E graph_hdl \in GraphHandleArgs, out \in DevOutcomes :
       LET r == close_graph(graph_hdl, out)
       IN /\ graph_cache' = r.cache
          /\ graph_heap' = r.heap
          /\ dev_graphs' = r.dev_graphs
          /\ terminated' = r.terminated
          /\ closed_handles' = IF r.exc = NoExc /\ ~r.terminated
                               THEN closed_handles \cup {graph_hdl} ELSE closed_handles
          /\ stale_handles' = IF r.exc = NoExc /\ ~r.terminated
                              THEN stale_handles \cup {graph_hdl} ELSE stale_handles
          /\ IF r.terminated
             THEN Aborted("xrtGraphClose", "C", graph_hdl, 0, "void", r.dev,
                          GraphTag(graph_hdl))
             ELSE CReturn("xrtGraphClose", graph_hdl, 0, "void", "void", "void",
                          r.exc, r.dev, GraphTag(graph_hdl))
  /\ UNCHANGED <<oo_graphs, inflight, profVars, devVars>>

xrtGraphReset ==
  /\ Ready
  /\ \E graph_hdl \in GraphHandleArgs, unused \in {0}, out \in DevOutcomes :
       LET hdl == get_graph_hdl(graph_hdl)
       IN IF hdl.exc # NoExc
          THEN CReturn("xrtGraphReset", graph_hdl, unused, "int", -1, -1,
                       hdl.exc, <<>>, GraphTag(graph_hdl))
          ELSE CReturn("xrtGraphReset", graph_hdl, unused, "int", 0, -1,
                       out, <<graph_impl_reset(hdl.ptr, out)>>, GraphTag(graph_hdl))
  /\ UNCHANGED <<graphVars, profVars, devVars, terminated>>

xrtGraphTimeStamp ==
  /\ Ready
  /\ \E graph_hdl \in GraphHandleArgs, unused \in {0}, out \in DevOutcomes, v \in CounterValues :
       LET hdl == get_graph_hdl(graph_hdl)
       IN IF hdl.exc # NoExc
          THEN CReturn("xrtGraphTimeStamp", graph_hdl, unused, "u64", UINT64_MAX, UINT64_MAX,
                       hdl.exc, <<>>, GraphTag(graph_hdl))
          ELSE CReturn("xrtGraphTimeStamp", graph_hdl, unused, "u64", v, UINT64_MAX,
                       out, <<graph_impl_get_timestamp(hdl.ptr, out, v)>>, GraphTag(graph_hdl))
  /\ UNCHANGED <<graphVars, profVars, devVars, terminated>>

xrtGraphRun ==
  /\ Ready
  /\ \E graph_hdl \in GraphHandleArgs, iterations \in Iterations, out \in DevOutcomes :
       LET hdl == get_graph_hdl(graph_hdl)
       IN IF hdl.exc # NoExc
          THEN CReturn("xrtGraphRun", graph_hdl, iterations, "int", -1, -1,
                       hdl.exc, <<>>, GraphTag(graph_hdl))
          ELSE CReturn("xrtGraphRun", graph_hdl, iterations, "int", 0, -1,
                       out, <<graph_impl_run(hdl.ptr, iterations, out)>>, GraphTag(graph_hdl))
  /\ UNCHANGED <<graphVars, profVars, devVars, terminated>>

xrtGraphWaitDone ==
  /\ Ready
  /\ \E graph_hdl \in GraphHandleArgs, timeoutMilliSec \in Timeouts, out \in DevOutcomes, v \in WaitStatus :
       LET hdl == get_graph_hdl(graph_hdl)
       IN IF hdl.exc # NoExc
          THEN CReturn("xrtGraphWaitDone", graph_hdl, timeoutMilliSec, "int", -1, -1,
                       hdl.exc, <<>>, GraphTag(graph_hdl))
          ELSE CReturn("xrtGraphWaitDone", graph_hdl, timeoutMilliSec, "int", v, -1,
                       out, <<graph_impl_wait_timeout(hdl.ptr, timeoutMilliSec, out, v)>>, GraphTag(graph_hdl))
  /\ UNCHANGED <<graphVars, profVars, devVars, terminated>>

xrtGraphWait ==
  /\ Ready
  /\ \E graph_hdl \in GraphHandleArgs, cycle \in Cycles, out \in DevOutcomes :
       LET hdl == get_graph_hdl(graph_hdl)
       IN IF hdl.exc # NoExc
          THEN CReturn("xrtGraphWait", graph_hdl, cycle, "int", -1, -1,
                       hdl.exc, <<>>, GraphTag(graph_hdl))
          ELSE CReturn("xrtGraphWait", graph_hdl, cycle, "int", 0, -1,
                       out, <<graph_impl_wait_cycle(hdl.ptr, cycle, out)>>, GraphTag(graph_hdl))
  /\ UNCHANGED <<graphVars, profVars, devVars, terminated>>

xrtGraphSuspend ==
  /\ Ready
  /\ \E graph_hdl \in GraphHandleArgs, unused \in {0}, out \in DevOutcomes :
       LET hdl == get_graph_hdl(graph_hdl)
       IN IF hdl.exc # NoExc
          THEN CReturn("xrtGraphSuspend", graph_hdl, unused, "int", -1, -1,
                       hdl.exc, <<>>, GraphTag(graph_hdl))
          ELSE CReturn("xrtGraphSuspend", graph_hdl, unused, "int", 0, -1,
                       out, <<graph_impl_suspend(hdl.ptr, out)>>, GraphTag(graph_hdl))
  /\ UNCHANGED <<graphVars, profVars, devVars, terminated>>

xrtGraphResume ==
  /\ Ready
  /\ \E graph_hdl \in GraphHandleArgs, unused \in {0}, out \in DevOutcomes :
       LET hdl == get_graph_hdl(graph_hdl)
       IN IF hdl.exc # NoExc
          THEN CReturn("xrtGraphResume", graph_hdl, unused, "int", -1, -1,
                       hdl.exc, <<>>, GraphTag(graph_hdl))
          ELSE CReturn("xrtGraphResume", graph_hdl, unused, "int", 0, -1,
                       out, <<graph_impl_resume(hdl.ptr, out)>>, GraphTag(graph_hdl))
  /\ UNCHANGED <<graphVars, profVars, devVars, terminated>>

xrtGraphEnd ==
  /\ Ready
  /\ \E graph_hdl \in GraphHandleArgs, cycle \in Cycles, out \in DevOutcomes :
       LET hdl == get_graph_hdl(graph_hdl)
       IN IF hdl.exc # NoExc
          THEN CReturn("xrtGraphEnd", graph_hdl, cycle, "int", -1, -1,
                       hdl.exc, <<>>, GraphTag(graph_hdl))
          ELSE CReturn("xrtGraphEnd", graph_hdl, cycle, "int", 0, -1,
                       out, <<graph_impl_end(hdl.ptr, cycle, out)>>, GraphTag(graph_hdl))
  /\ UNCHANGED <<graphVars, profVars, devVars, terminated>>

xrtGraphUpdateRTP ==
  /\ Ready
  /\ \E graph_hdl \in GraphHandleArgs, unused \in {0}, out \in DevOutcomes :
       LET hdl == get_graph_hdl(graph_hdl)
       IN IF hdl.exc # NoExc
          THEN CReturn("xrtGraphUpdateRTP", graph_hdl, unused, "int", -1, -1,
                       hdl.exc, <<>>, GraphTag(graph_hdl))
          ELSE CReturn("xrtGraphUpdateRTP", graph_hdl, unused, "int", 0, -1,
                       out, <<graph_impl_update_rtp(hdl.ptr, out)>>, GraphTag(graph_hdl))
  /\ UNCHANGED <<graphVars, profVars, devVars, terminated>>

xrtGraphReadRTP ==
  /\ Ready
  /\ \E graph_hdl \in GraphHandleArgs, unused \in {0}, out \in DevOutcomes :
       LET hdl == get_graph_hdl(graph_hdl)
       IN IF hdl.exc # NoExc
          THEN CReturn("xrtGraphReadRTP", graph_hdl, unused, "int", -1, -1,
                       hdl.exc, <<>>, GraphTag(graph_hdl))
          ELSE CReturn("xrtGraphReadRTP", graph_hdl, unused, "int", 0, -1,
                       out, <<graph_impl_read_rtp(hdl.ptr, out)>>, GraphTag(graph_hdl))
  /\ UNCHANGED <<graphVars, profVars, devVars, terminated>>


\* ------------------------------------------------------------------ xrt::graph
\* xrt::graph::graph: open_graph(const xrt::device&, ...); a failure of the
\* device propagates out of the constructor.
graph_ctor ==
  /\ Ready
  /\ devices # {}
  /\ \E am \in AccessModes :
       \/ \E f \in DevFailures :
            /\ OOReturn("xrt::graph::graph", XRT_NULL_HANDLE, 0, "handle", "none", f,
                        <<DevCall("open_graph", XRT_NULL_HANDLE, am, FALSE, f, "void")>>, NoTag)
            /\ UNCHANGED graphVars
       \/ \E handle \in DevGraphHandles \ dev_graphs, a \in Addr \ DOMAIN graph_heap :
            /\ dev_graphs' = dev_graphs \cup {handle}
            /\ graph_heap' = Put(graph_heap, a, graph_impl(core_device(devices), handle))
            /\ oo_graphs' = oo_graphs \cup {a}
            /\ OOReturn("xrt::graph::graph", XRT_NULL_HANDLE, 0, "handle", a, NoExc,
                        <<DevCall("open_graph", handle, am, FALSE, NoExc, handle)>>, NoTag)
            /\ UNCHANGED <<graph_cache, inflight, closed_handles, stale_handles>>
  /\ UNCHANGED <<profVars, devVars, terminated>>

\* The xrt::graph object goes away: its shared_ptr is released and, being the
\* last owner, runs graph_impl::~graph_impl.
graph_dtor ==
  /\ Ready
  /\ \E a \in oo_graphs, out \in DevOutcomes :
       IF shared_owner(a, graph_cache, oo_graphs \ {a}, inflight)
       THEN /\ oo_graphs' = oo_graphs \ {a}
            /\ OOReturn("xrt::graph::~graph", a, 0, "void", "void", NoExc, <<>>, NoTag)
            /\ UNCHANGED <<graph_heap, dev_graphs, terminated>>
       ELSE LET d == graph_impl_dtor(a, out)
            IN /\ oo_graphs' = oo_graphs \ {a}
               /\ graph_heap' = Drop(graph_heap, a)
               /\ dev_graphs' = d.dev_graphs
               /\ terminated' = d.terminated
               /\ IF d.terminated
                  THEN Aborted("xrt::graph::~graph", "OO", a, 0, "void", d.dev, NoTag)
                  ELSE OOReturn("xrt::graph::~graph", a, 0, "void", "void", NoExc,
                                d.dev, NoTag)
  /\ UNCHANGED <<graph_cache, inflight, closed_handles, stale_handles, profVars,
                 devVars>>

\* Variant: a timeout wait that sends 0 to the timeout overload too.
graph_wait_ms_call_always_timeout(a, timeout_ms, out, v) ==
  graph_impl_wait_timeout(a, timeout_ms, out, v)

\* xrt::graph::wait(std::chrono::milliseconds): a timeout of 0 is sent to the
\* cycle overload, wait(uint64_t 0); any other to wait(int).
graph_wait_ms_call(a, timeout_ms, out, v) ==
  IF timeout_ms = 0
  THEN graph_impl_wait_cycle(a, 0, out)
  ELSE graph_impl_wait_timeout(a, timeout_ms, out, v)

graph_reset ==
  /\ Ready
  /\ \E a \in oo_graphs, unused \in {0}, out \in DevOutcomes :
       OOReturn("xrt::graph::reset", a, unused, "void", "void", out, <<graph_impl_reset(a, out)>>, NoTag)
  /\ UNCHANGED <<graphVars, profVars, devVars, terminated>>

graph_get_timestamp ==
  /\ Ready
  /\ \E a \in oo_graphs, unused \in {0}, out \in DevOutcomes, v \in CounterValues :
       OOReturn("xrt::graph::get_timestamp", a, unused, "u64", v, out, <<graph_impl_get_timestamp(a, out, v)>>, NoTag)
  /\ UNCHANGED <<graphVars, profVars, devVars, terminated>>

graph_run ==
  /\ Ready
  /\ \E a \in oo_graphs, iterations \in Iterations, out \in DevOutcomes :
       OOReturn("xrt::graph::run", a, iterations, "void", "void", out, <<graph_impl_run(a, iterations, out)>>, NoTag)
  /\ UNCHANGED <<graphVars, profVars, devVars, terminated>>

graph_wait_ms ==
  /\ Ready
  /\ \E a \in oo_graphs, timeout_ms \in Timeouts, out \in DevOutcomes, v \in WaitStatus :
       OOReturn("xrt::graph::wait(ms)", a, timeout_ms, "void", "void", out, <<graph_wait_ms_call(a, timeout_ms, out, v)>>, NoTag)
  /\ UNCHANGED <<graphVars, profVars, devVars, terminated>>

graph_wait_cycles ==
  /\ Ready
  /\ \E a \in oo_graphs, cycles \in Cycles, out \in DevOutcomes :
       OOReturn("xrt::graph::wait(cycles)", a, cycles, "void", "void", out, <<graph_impl_wait_cycle(a, cycles, out)>>, NoTag)
  /\ UNCHANGED <<graphVars, profVars, devVars, terminated>>

graph_suspend ==
  /\ Ready
  /\ \E a \in oo_graphs, unused \in {0}, out \in DevOutcomes :
       OOReturn("xrt::graph::suspend", a, unused, "void", "void", out, <<graph_impl_suspend(a, out)>>, NoTag)
  /\ UNCHANGED <<graphVars, profVars, devVars, terminated>>

graph_resume ==
  /\ Ready
  /\ \E a \in oo_graphs, unused \in {0}, out \in DevOutcomes :
       OOReturn("xrt::graph::resume", a, unused, "void", "void", out, <<graph_impl_resume(a, out)>>, NoTag)
  /\ UNCHANGED <<graphVars, profVars, devVars, terminated>>

graph_end ==
  /\ Ready
  /\ \E a \in oo_graphs, cycles \in Cycles, out \in DevOutcomes :
       OOReturn("xrt::graph::end", a, cycles, "void", "void", out, <<graph_impl_end(a, cycles, out)>>, NoTag)
  /\ UNCHANGED <<graphVars, profVars, devVars, terminated>>

graph_update_port ==
  /\ Ready
  /\ \E a \in oo_graphs, unused \in {0}, out \in DevOutcomes :
       OOReturn("xrt::graph::update_port", a, unused, "void", "void", out, <<graph_impl_update_rtp(a, out)>>, NoTag)
  /\ UNCHANGED <<graphVars, profVars, devVars, terminated>>

graph_read_port ==
  /\ Ready
  /\ \E a \in oo_graphs, unused \in {0}, out \in DevOutcomes :
       OOReturn("xrt::graph::read_port", a, unused, "void", "void", out, <<graph_impl_read_rtp(a, out)>>, NoTag)
  /\ UNCHANGED <<graphVars, profVars, devVars, terminated>>


\* ------------------------------------------------------------------ profiling_impl
\* profiling_impl::profiling_impl(dev): not started.
profiling_impl(dev) == [device |-> dev, profiling_hdl |-> invalid_handle]

\* The device's stop_profiling(h) that completed with out: the counter is
\* released when the call succeeded.
DevStopProfiling(active, h, out) ==
  IF out = NoExc THEN active \ {h} ELSE active

\* profiling_impl::~profiling_impl: device->stop_profiling(profiling_hdl)
\* whatever the handle is, every failure swallowed.
profiling_impl_dtor(obj, active, out) ==
  [dev |-> <<DevCall("stop_profiling", obj.profiling_hdl, 0,
                     obj.profiling_hdl \in active, out, "void")>>,
   dev_prof |-> DevStopProfiling(active, obj.profiling_hdl, out)]

\* Variant: a start that does not keep the handle the device returned.
start_profiling_forget(obj, option, out, ret) ==
  [exc |-> out, obj |-> obj, ret |-> ret,
   dev |-> <<DevCall("start_profiling", invalid_handle, option, FALSE, out, ret)>>,
   dev_prof |-> IF out = NoExc /\ ret # invalid_handle
                THEN dev_prof \cup {ret} ELSE dev_prof]

\* profiling_impl::start_profiling: the device returns ret (a handle it did
\* not have active, or invalid_handle) or raises out.
start_profiling(obj, option, out, ret) ==
  [exc |-> out,
   obj |-> IF out = NoExc THEN [obj EXCEPT !.profiling_hdl = ret] ELSE obj,
   ret |-> ret,
   dev |-> <<DevCall("start_profiling", invalid_handle, option, FALSE, out, ret)>>,
   dev_prof |-> IF out = NoExc /\ ret # invalid_handle
                THEN dev_prof \cup {ret} ELSE dev_prof]

\* Variant: a read without the check of the handle.
read_profiling_unchecked(obj, out, v) ==
  [exc |-> out, ret |-> v,
   dev |-> <<DevCall("read_profiling", obj.profiling_hdl, 0,
                     obj.profiling_hdl \in dev_prof, out, v)>>]

\* profiling_impl::read_profiling
read_profiling(obj, out, v) ==
  IF obj.profiling_hdl = invalid_handle
  THEN [exc |-> XrtError(-EINVAL), ret |-> v, dev |-> <<>>]
  ELSE [exc |-> out, ret |-> v,
        dev |-> <<DevCall("read_profiling", obj.profiling_hdl, 0,
                          obj.profiling_hdl \in dev_prof, out, v)>>]

\* Variant: a stop without the check of the handle.
stop_profiling_unchecked(obj, out) ==
  [exc |-> out,
   obj |-> IF out = NoExc THEN [obj EXCEPT !.profiling_hdl = invalid_handle] ELSE obj,
   dev |-> <<DevCall("stop_profiling", obj.profiling_hdl, 0,
                     obj.profiling_hdl \in dev_prof, out, "void")>>,
   dev_prof |-> DevStopProfiling(dev_prof, obj.profiling_hdl, out)]

\* Variant: a stop that keeps the handle after the device released it.
stop_profiling_keep_handle(obj, out) ==
  IF obj.profiling_hdl = invalid_handle
  THEN [exc |-> XrtError(-EINVAL), obj |-> obj, dev |-> <<>>, dev_prof |-> dev_prof]
  ELSE [exc |-> out, obj |-> obj,
        dev |-> <<DevCall("stop_profiling", obj.profiling_hdl, 0,
                          obj.profiling_hdl \in dev_prof, out, "void")>>,
        dev_prof |-> DevStopProfiling(dev_prof, obj.profiling_hdl, out)]

\* profiling_impl::stop_profiling
stop_profiling(obj, out) ==
  IF obj.profiling_hdl = invalid_handle
  THEN [exc |-> XrtError(-EINVAL), obj |-> obj, dev |-> <<>>, dev_prof |-> dev_prof]
  ELSE [exc |-> out,
        obj |-> IF out = NoExc THEN [obj EXCEPT !.profiling_hdl = invalid_handle]
                ELSE obj,
        dev |-> <<DevCall("stop_profiling", obj.profiling_hdl, 0,
                          obj.profiling_hdl \in dev_prof, out, "void")>>,
        dev_prof |-> DevStopProfiling(dev_prof, obj.profiling_hdl, out)]

\* What the device's start_profiling can return: a handle it does not have
\* active, or invalid_handle.
StartReturns == (ProfHandles \ dev_prof) \cup {invalid_handle}

\* ------------------------------------------------------------------ C profiling API
\* The option check of xrtAIEStartProfiling.
option_valid(option) == ~(option < 0 \/ option > 3)

xrtAIEStartProfiling ==
  /\ Ready
  /\ \E handle \in DevHandleArgs, option \in Options :
     \E out \in OutcomesIf(get_core_device(handle) = NoExc /\ option_valid(option)) :
     \E ret \in IF out = NoExc /\ get_core_device(handle) = NoExc /\ option_valid(option)
                THEN StartReturns ELSE {invalid_handle} :
     \E out2 \in OutcomesIf(/\ get_core_device(handle) = NoExc
                            /\ \/ ~option_valid(option)
                               \/ out # NoExc
                               \/ ret = invalid_handle
                               \/ ret \in DOMAIN profiling_cache) :
       LET dex == get_core_device(handle)
           event == profiling_impl(core_device(handle))
           st == start_profiling(event, option, out, ret)
       IN IF dex # NoExc
          THEN \* create_profiling_event threw: no event exists
               /\ CReturn("xrtAIEStartProfiling", invalid_handle, option, "int", -1, -1,
                          dex, <<>>, NoTag)
               /\ UNCHANGED profVars
          ELSE IF ~option_valid(option)
          THEN \* throw; the unwinding destroys event
               LET d == profiling_impl_dtor(event, dev_prof, out2)
               IN /\ CReturn("xrtAIEStartProfiling", invalid_handle, option, "int", -1, -1,
                             XrtError(-EINVAL), d.dev, NoTag)
                  /\ dev_prof' = d.dev_prof
                  /\ UNCHANGED <<profiling_cache, oo_prof, issued_prof, stopped_prof,
                                 oo_prof_hist, oo_prof_unstopped>>
          ELSE IF st.exc # NoExc \/ st.ret = invalid_handle
          THEN \* the device threw, or returned invalid_handle: event is destroyed
               LET d == profiling_impl_dtor(st.obj, st.dev_prof, out2)
               IN /\ CReturn("xrtAIEStartProfiling", invalid_handle, option, "int", -1, -1,
                             IF st.exc # NoExc THEN st.exc ELSE XrtError(-EINVAL),
                             st.dev \o d.dev, NoTag)
                  /\ dev_prof' = d.dev_prof
                  /\ UNCHANGED <<profiling_cache, oo_prof, issued_prof, stopped_prof,
                                 oo_prof_hist, oo_prof_unstopped>>
          ELSE \* profiling_cache[hdl] = event; an entry it replaces is destroyed
               LET old == IF st.ret \in DOMAIN profiling_cache
                          THEN profiling_impl_dtor(profiling_cache[st.ret], st.dev_prof, out2)
                          ELSE [dev |-> <<>>, dev_prof |-> st.dev_prof]
               IN /\ profiling_cache' = Put(profiling_cache, st.ret, st.obj)
                  /\ dev_prof' = old.dev_prof
                  /\ issued_prof' = issued_prof \cup {st.ret}
                  /\ stopped_prof' = stopped_prof \ {st.ret}
                  /\ CReturn("xrtAIEStartProfiling", st.ret, option, "int", st.ret, -1,
                             NoExc, st.dev \o old.dev, ProfTag(st.ret))
                  /\ UNCHANGED <<oo_prof, oo_prof_hist, oo_prof_unstopped>>
  /\ UNCHANGED <<graphVars, devVars, terminated>>

xrtAIEReadProfiling ==
  /\ Ready
  /\ \E pHandle \in ProfHandleArgs :
     \E out \in OutcomesIf(pHandle \in DOMAIN profiling_cache) :
     \E v \in IF pHandle \in DOMAIN profiling_cache /\ out = NoExc
              THEN CounterValues ELSE {UINT64_MAX} :
       IF pHandle \in DOMAIN profiling_cache
       THEN LET r == read_profiling(profiling_cache[pHandle], out, v)
            IN CReturn("xrtAIEReadProfiling", pHandle, 0, "u64", r.ret, UINT64_MAX,
                       r.exc, r.dev, ProfTag(pHandle))
       ELSE CReturn("xrtAIEReadProfiling", pHandle, 0, "u64", UINT64_MAX, UINT64_MAX,
                    XrtError(-EINVAL), <<>>, ProfTag(pHandle))
  /\ UNCHANGED <<graphVars, profVars, devVars, terminated>>

\* Variant: the entry is erased whether the stop succeeded or not.
xrtAIEStopProfiling_erase_always ==
  /\ Ready
  /\ \E pHandle \in ProfHandleArgs, out \in DevOutcomes :
       IF pHandle \in DOMAIN profiling_cache
       THEN LET r == stop_profiling(profiling_cache[pHandle], out)
            IN /\ profiling_cache' = Drop(profiling_cache, pHandle)
               /\ dev_prof' = r.dev_prof
               /\ stopped_prof' = stopped_prof \cup {pHandle}
               /\ CReturn("xrtAIEStopProfiling", pHandle, 0, "void", "void", "void",
                          r.exc, r.dev, ProfTag(pHandle))
               /\ UNCHANGED <<oo_prof, issued_prof, oo_prof_hist, oo_prof_unstopped>>
       ELSE /\ CReturn("xrtAIEStopProfiling", pHandle, 0, "void", "void", "void",
                       XrtError(-EINVAL), <<>>, ProfTag(pHandle))
            /\ UNCHANGED profVars
  /\ UNCHANGED <<graphVars, devVars, terminated>>

xrtAIEStopProfiling ==
  /\ Ready
  /\ \E pHandle \in ProfHandleArgs :
     \E out \in OutcomesIf(pHandle \in DOMAIN profiling_cache) :
     \E out2 \in OutcomesIf(pHandle \in DOMAIN profiling_cache /\ out = NoExc) :
       IF pHandle \in DOMAIN profiling_cache
       THEN LET r == stop_profiling(profiling_cache[pHandle], out)
                \* profiling_cache.erase(pHandle) destroys the object
                d == profiling_impl_dtor(r.obj, r.dev_prof, out2)
            IN IF r.exc # NoExc
               THEN /\ profiling_cache' = Put(profiling_cache, pHandle, r.obj)
                    /\ dev_prof' = r.dev_prof
                    /\ CReturn("xrtAIEStopProfiling", pHandle, 0, "void", "void", "void",
                               r.exc, r.dev, ProfTag(pHandle))
                    /\ UNCHANGED <<oo_prof, issued_prof, stopped_prof, oo_prof_hist, oo_prof_unstopped>>
               ELSE /\ profiling_cache' = Drop(profiling_cache, pHandle)
                    /\ dev_prof' = d.dev_prof
                    /\ stopped_prof' = stopped_prof \cup {pHandle}
                    /\ CReturn("xrtAIEStopProfiling", pHandle, 0, "void", "void", "void",
                               NoExc, r.dev \o d.dev, ProfTag(pHandle))
                    /\ UNCHANGED <<oo_prof, issued_prof, oo_prof_hist, oo_prof_unstopped>>
       ELSE /\ CReturn("xrtAIEStopProfiling", pHandle, 0, "void", "void", "void",
                       XrtError(-EINVAL), <<>>, ProfTag(pHandle))
            /\ UNCHANGED profVars
  /\ UNCHANGED <<graphVars, devVars, terminated>>

\* ------------------------------------------------------------------ xrt::aie::profiling
\* xrt::aie::profiling::profiling(device): create_profiling_event(device)
profiling_ctor ==
  /\ Ready
  /\ devices # {}
  /\ \E o \in ProfObjs \ DOMAIN oo_prof :
       /\ oo_prof' = Put(oo_prof, o, profiling_impl(core_device(devices)))
       /\ oo_prof_hist' = Put(oo_prof_hist, o, "fresh")
       /\ oo_prof_unstopped' = Put(oo_prof_unstopped, o, {})
       /\ OOReturn("xrt::aie::profiling::profiling", o, 0, "void", "void", NoExc, <<>>,
                   NoTag)
  /\ UNCHANGED <<profiling_cache, dev_prof, issued_prof, stopped_prof>>
  /\ UNCHANGED <<graphVars, devVars, terminated>>

\* The xrt::aie::profiling object goes away: ~profiling_impl runs.
profiling_dtor ==
  /\ Ready
  /\ \E o \in DOMAIN oo_prof, out \in DevOutcomes :
       LET d == profiling_impl_dtor(oo_prof[o], dev_prof, out)
       IN /\ oo_prof' = Drop(oo_prof, o)
          /\ oo_prof_hist' = Drop(oo_prof_hist, o)
          /\ oo_prof_unstopped' = Drop(oo_prof_unstopped, o)
          /\ dev_prof' = d.dev_prof
          /\ OOReturn("xrt::aie::profiling::~profiling", o, 0, "void", "void", NoExc,
                      d.dev, ObjTag(o))
  /\ UNCHANGED <<profiling_cache, issued_prof, stopped_prof>>
  /\ UNCHANGED <<graphVars, devVars, terminated>>

\* xrt::aie::profiling::start: no check of the option here.
profiling_start ==
  /\ Ready
  /\ \E o \in DOMAIN oo_prof, option \in Options, out \in DevOutcomes :
     \E ret \in IF out = NoExc THEN StartReturns ELSE {invalid_handle} :
       LET st == start_profiling(oo_prof[o], option, out, ret)
       IN /\ oo_prof' = Put(oo_prof, o, st.obj)
          /\ dev_prof' = st.dev_prof
          /\ oo_prof_hist' = IF st.exc = NoExc /\ st.ret # invalid_handle
                             THEN Put(oo_prof_hist, o, "started")
                             ELSE IF st.exc = NoExc /\ oo_prof_hist[o] # "fresh"
                             THEN Put(oo_prof_hist, o, "lost")
                             ELSE oo_prof_hist
          /\ oo_prof_unstopped' =
               IF st.exc = NoExc /\ st.ret # invalid_handle
               THEN Put(oo_prof_unstopped, o, oo_prof_unstopped[o] \cup {st.ret})
               ELSE oo_prof_unstopped
          /\ OOReturn("xrt::aie::profiling::start", o, option, "int", st.ret, st.exc,
                      st.dev, ObjTag(o))
  /\ UNCHANGED <<profiling_cache, issued_prof, stopped_prof>>
  /\ UNCHANGED <<graphVars, devVars, terminated>>

\* xrt::aie::profiling::read
profiling_read ==
  /\ Ready
  /\ \E o \in DOMAIN oo_prof :
     \E out \in OutcomesIf(oo_prof[o].profiling_hdl # invalid_handle) :
     \E v \in IF oo_prof[o].profiling_hdl # invalid_handle /\ out = NoExc
              THEN CounterValues ELSE {UINT64_MAX} :
       LET r == read_profiling(oo_prof[o], out, v)
       IN OOReturn("xrt::aie::profiling::read", o, 0, "u64", r.ret, r.exc, r.dev,
                   ObjTag(o))
  /\ UNCHANGED <<graphVars, profVars, devVars, terminated>>

\* xrt::aie::profiling::stop
profiling_stop ==
  /\ Ready
  /\ \E o \in DOMAIN oo_prof :
     \E out \in OutcomesIf(oo_prof[o].profiling_hdl # invalid_handle) :
       LET r == stop_profiling(oo_prof[o], out)
       IN /\ oo_prof' = Put(oo_prof, o, r.obj)
          /\ dev_prof' = r.dev_prof
          /\ oo_prof_hist' = IF r.exc = NoExc THEN Put(oo_prof_hist, o, "stopped")
                             ELSE oo_prof_hist
          /\ oo_prof_unstopped' =
               Put(oo_prof_unstopped, o,
                   oo_prof_unstopped[o] \ {r.dev[i].h : i \in DOMAIN r.dev})
          /\ OOReturn("xrt::aie::profiling::stop", o, 0, "void", "void", r.exc, r.dev,
                      ObjTag(o))
  /\ UNCHANGED <<profiling_cache, issued_prof, stopped_prof>>
  /\ UNCHANGED <<graphVars, devVars, terminated>>


\* ------------------------------------------------------------------ device API
\* xrtDeviceOpen(index) (xrt_device.cpp): a new device handle, or nullptr.
xrtDeviceOpen == (DevHandles \ devices) \cup {XRT_NULL_HANDLE}

\* Variant: the device is closed again when the context cannot be
\* established.
xrtAIEDeviceOpenMode_closing(op, am) ==
  /\ Ready
  /\ \E handle \in xrtDeviceOpen, out \in DevOutcomes :
       /\ devices' = IF handle = XRT_NULL_HANDLE \/ out # NoExc
                     THEN devices ELSE devices \cup {handle}
       /\ IF handle = XRT_NULL_HANDLE
          THEN CReturn(op, XRT_NULL_HANDLE, 0, "handle", XRT_NULL_HANDLE,
                       XRT_NULL_HANDLE, XrtError(-EINVAL), <<>>, NoTag)
          ELSE CReturn(op, XRT_NULL_HANDLE, 0, "handle", handle, XRT_NULL_HANDLE, out,
                       <<DevCall("open_aie_context", handle, am, TRUE, out, "void")>>, NoTag)
  /\ UNCHANGED <<graphVars, profVars, pending, terminated>>

\* xrtAIEDeviceOpen*: xrtDeviceOpen, then open_aie_context(handle, am); the
\* device stays open when the context cannot be established.
xrtAIEDeviceOpenMode(op, am) ==
  /\ Ready
  /\ \E handle \in xrtDeviceOpen, out \in DevOutcomes :
       /\ devices' = IF handle = XRT_NULL_HANDLE THEN devices ELSE devices \cup {handle}
       /\ IF handle = XRT_NULL_HANDLE
          THEN \* get_core_device(nullptr) throws
               CReturn(op, XRT_NULL_HANDLE, 0, "handle", XRT_NULL_HANDLE,
                       XRT_NULL_HANDLE, XrtError(-EINVAL), <<>>, NoTag)
          ELSE CReturn(op, XRT_NULL_HANDLE, 0, "handle", handle, XRT_NULL_HANDLE, out,
                       <<DevCall("open_aie_context", handle, am, TRUE, out, "void")>>, NoTag)
  /\ UNCHANGED <<graphVars, profVars, pending, terminated>>

xrtAIEDeviceOpen == xrtAIEDeviceOpenMode("xrtAIEDeviceOpen", "primary")

xrtAIEDeviceOpenExclusive == xrtAIEDeviceOpenMode("xrtAIEDeviceOpenExclusive", "exclusive")

xrtAIEDeviceOpenShared == xrtAIEDeviceOpenMode("xrtAIEDeviceOpenShared", "shared")

\* The device's transfers (xrt_core::device, outside this file).  A port
\* holds a submitted transfer until the device marks it complete:
\*   sync_aie_bo      submits a transfer and returns when it is complete;
\*   sync_aie_bo_nb   submits a transfer and returns;
\*   wait_gmio        returns when the port has no transfer left to complete.
\* What the device holds submitted after sync_aie_bo_nb(port) ended with out.
DevSubmit(port, out) == IF out = NoExc THEN pending \cup {port} ELSE pending

\* wait_gmio(port) can end with out: a failure at any time, a normal return
\* only when the port is idle.
DevWaitEnds(port, out) == out # NoExc \/ port \notin pending

\* The device marks the transfer of a port complete.
DeviceCompletes ==
  /\ ~terminated
  /\ \E port \in pending : pending' = pending \ {port}
  /\ UNCHANGED <<graphVars, profVars, devices, errno, terminated, last>>

\* sync_aie_bo: get_core_device, xrt::bo(bohdl), device->sync_aie_bo, called
\* by the entry point op.
SyncBOAIE(op) ==
  /\ Ready
  /\ \E handle \in DevHandleArgs, gmioName \in Ports, out \in DevOutcomes,
        bo_ok \in BOOLEAN :
       LET dex == get_core_device(handle)
       IN IF dex # NoExc
          THEN CReturn(op, handle, gmioName, "int", -1, -1, dex, <<>>, NoTag)
          ELSE IF ~bo_ok
          THEN CReturn(op, handle, gmioName, "int", -1, -1, XrtError(-EINVAL),
                       <<>>, NoTag)
          ELSE CReturn(op, handle, gmioName, "int", 0, -1, out,
                       <<DevCall("sync_aie_bo", handle, gmioName, TRUE, out, "void")>>,
                       NoTag)
  /\ UNCHANGED <<graphVars, profVars, devVars, terminated>>

xrtSyncBOAIE == SyncBOAIE("xrtSyncBOAIE")

xrtAIESyncBO == SyncBOAIE("xrtAIESyncBO")

\* reset_aie: get_core_device, device->reset_aie, called by the entry point op
ResetAIEArray(op) ==
  /\ Ready
  /\ \E handle \in DevHandleArgs, out \in DevOutcomes :
       LET dex == get_core_device(handle)
       IN IF dex # NoExc
          THEN CReturn(op, handle, 0, "int", -1, -1, dex, <<>>, NoTag)
          ELSE CReturn(op, handle, 0, "int", 0, -1, out,
                       <<DevCall("reset_aie", handle, 0, TRUE, out, "void")>>, NoTag)
  /\ UNCHANGED <<graphVars, profVars, devVars, terminated>>

xrtResetAIEArray == ResetAIEArray("xrtResetAIEArray")

xrtAIEResetArray == ResetAIEArray("xrtAIEResetArray")

\* Variant: the non-blocking entry point calls the blocking sync.
SyncBOAIENB_blocking(op) == SyncBOAIE(op)

\* sync_aie_bo_nb: get_core_device, xrt::bo(bohdl), device->sync_aie_bo_nb,
\* called by the entry point op.
SyncBOAIENB(op) ==
  /\ Ready
  /\ \E handle \in DevHandleArgs, gmioName \in Ports, out \in DevOutcomes,
        bo_ok \in BOOLEAN :
       LET dex == get_core_device(handle)
       IN IF dex # NoExc
          THEN /\ CReturn(op, handle, gmioName, "int", -1, -1, dex, <<>>, NoTag)
               /\ UNCHANGED pending
          ELSE IF ~bo_ok
          THEN /\ CReturn(op, handle, gmioName, "int", -1, -1, XrtError(-EINVAL),
                          <<>>, NoTag)
               /\ UNCHANGED pending
          ELSE /\ CReturn(op, handle, gmioName, "int", 0, -1, out,
                          <<DevCall("sync_aie_bo_nb", handle, gmioName, TRUE, out,
                                    "void")>>, NoTag)
               /\ pending' = DevSubmit(gmioName, out)
  /\ UNCHANGED <<graphVars, profVars, devices, terminated>>

xrtSyncBOAIENB == SyncBOAIENB("xrtSyncBOAIENB")

\* Variant: a wait that returns without asking the device.
GMIOWait_no_wait(op) ==
  /\ Ready
  /\ \E handle \in DevHandleArgs, gmioName \in Ports :
       LET dex == get_core_device(handle)
       IN IF dex # NoExc
          THEN CReturn(op, handle, gmioName, "int", -1, -1, dex, <<>>, NoTag)
          ELSE CReturn(op, handle, gmioName, "int", 0, -1, NoExc, <<>>, NoTag)
  /\ UNCHANGED <<graphVars, profVars, devVars, terminated>>

\* wait_gmio: get_core_device, device->wait_gmio, called by the entry point
\* op; the call is blocked in the device until the device lets it end.
GMIOWait(op) ==
  /\ Ready
  /\ \E handle \in DevHandleArgs, gmioName \in Ports, out \in DevOutcomes :
       LET dex == get_core_device(handle)
       IN IF dex # NoExc
          THEN CReturn(op, handle, gmioName, "int", -1, -1, dex, <<>>, NoTag)
          ELSE /\ DevWaitEnds(gmioName, out)
               /\ CReturn(op, handle, gmioName, "int", 0, -1, out,
                          <<DevCall("wait_gmio", handle, gmioName, TRUE, out, "void")>>,
                          NoTag)
  /\ UNCHANGED <<graphVars, profVars, devVars, terminated>>

xrtGMIOWait == GMIOWait("xrtGMIOWait")

\* ------------------------------------------------------------------ threads
\* xrtGraphRun run by another thread, step by step (the nine other graph
\* operations have the same shape).  errno is per thread: the thread's catch
\* clauses do not touch the calling thread's errno.  A call of the calling
\* thread is one step, so the steps of the other threads fall between its
\* calls (Ready).
\*   auto hdl = get_graph_hdl(graph_hdl);
RunResolves ==
  /\ Ready
  /\ \E t \in Threads \ DOMAIN inflight, graph_hdl \in DOMAIN graph_cache :
       LET hdl == get_graph_hdl(graph_hdl)
       IN /\ hdl.exc = NoExc
          /\ inflight' = Put(inflight, t, [op |-> "xrtGraphRun", h |-> graph_hdl,
                                            ptr |-> hdl.ptr, pc |-> "resolved",
                                            dev |-> <<>>])
  /\ UNCHANGED <<graph_heap, graph_cache, oo_graphs, dev_graphs, closed_handles,
                 stale_handles, profVars, devVars, errno, terminated, last>>

\*   hdl->run(iterations);  However the device call ends, the thread goes on
\* to its return; the thread keeps which call it made and whether the device
\* held the graph open.
RunCallsDevice ==
  /\ Ready
  /\ \E t \in DOMAIN inflight, iterations \in Iterations, out \in DevOutcomes :
       /\ inflight[t].pc = "resolved"
       /\ inflight[t].ptr \in DOMAIN graph_heap
       /\ LET c == graph_impl_run(inflight[t].ptr, iterations, out)
          IN inflight' = Put(inflight, t,
                             [inflight[t] EXCEPT
                                !.pc = "called",
                                !.dev = <<[fn |-> c.fn, h |-> c.h, live |-> c.live]>>])
  /\ UNCHANGED <<graph_heap, graph_cache, oo_graphs, dev_graphs, closed_handles,
                 stale_handles, profVars, devVars, errno, terminated, last>>

\*   return: hdl goes out of scope; the last owner destroys the graph_impl.
RunReturns ==
  /\ Ready
  /\ \E t \in DOMAIN inflight, out \in DevOutcomes :
       LET a == inflight[t].ptr
           rest == Drop(inflight, t)
       IN /\ inflight[t].pc = "called"
          /\ inflight' = rest
          /\ IF shared_owner(a, graph_cache, oo_graphs, rest)
             THEN UNCHANGED <<graph_heap, dev_graphs, terminated>>
             ELSE LET d == graph_impl_dtor(a, out)
                  IN /\ graph_heap' = Drop(graph_heap, a)
                     /\ dev_graphs' = d.dev_graphs
                     /\ terminated' = d.terminated
  /\ UNCHANGED <<graph_cache, oo_graphs, closed_handles, stale_handles, profVars,
                 devVars, errno, last>>

\* ------------------------------------------------------------------ specification
Init ==
  /\ devices = {}
  /\ graph_heap = EmptyMap
  /\ graph_cache = EmptyMap
  /\ oo_graphs = {}
  /\ inflight = EmptyMap
  /\ profiling_cache = EmptyMap
  /\ oo_prof = EmptyMap
  /\ dev_graphs = {}
  /\ dev_prof = {}
  /\ pending = {}
  /\ errno = 0
  /\ terminated = FALSE
  /\ closed_handles = {}
  /\ stale_handles = {}
  /\ issued_prof = {}
  /\ stopped_prof = {}
  /\ oo_prof_hist = EmptyMap
  /\ oo_prof_unstopped = EmptyMap
  /\ last = NoCall

\* The caller has taken the result of its call and goes on to the next one.
CallReturns ==
  /\ ~terminated
  /\ last.op # "none"
  /\ last' = NoCall
  /\ UNCHANGED <<graphVars, profVars, devVars, errno, terminated>>

DeviceOpens ==
  \/ xrtAIEDeviceOpen \/ xrtAIEDeviceOpenExclusive \/ xrtAIEDeviceOpenShared

DeviceOps ==
  \/ xrtSyncBOAIE \/ xrtAIESyncBO \/ xrtResetAIEArray \/ xrtAIEResetArray
  \/ xrtSyncBOAIENB \/ xrtGMIOWait \/ DeviceCompletes

GraphOps ==
  \/ xrtGraphOpen \/ xrtGraphOpenExclusive \/ xrtGraphOpenShared \/ xrtGraphClose
  \/ xrtGraphReset \/ xrtGraphTimeStamp \/ xrtGraphRun \/ xrtGraphWaitDone
  \/ xrtGraphWait \/ xrtGraphSuspend \/ xrtGraphResume \/ xrtGraphEnd
  \/ xrtGraphUpdateRTP \/ xrtGraphReadRTP
  \/ graph_ctor \/ graph_dtor \/ graph_reset \/ graph_get_timestamp \/ graph_run
  \/ graph_wait_ms \/ graph_wait_cycles \/ graph_suspend \/ graph_resume
  \/ graph_end \/ graph_update_port \/ graph_read_port

ProfilingOps ==
  \/ xrtAIEStartProfiling \/ xrtAIEReadProfiling \/ xrtAIEStopProfiling
  \/ profiling_ctor \/ profiling_dtor \/ profiling_start \/ profiling_read
  \/ profiling_stop

\* The whole program.
Next ==
  \/ DeviceOpens \/ DeviceOps \/ GraphOps \/ ProfilingOps \/ CallReturns
  \/ RunResolves \/ RunCallsDevice \/ RunReturns

Spec == Init /\ [][Next]_vars

\* The graph side, the profiling side and the device entry points share
\* nothing but the open devices, errno and the process: each is checked with
\* the entry points that open a device.
NextGraph == DeviceOpens \/ GraphOps \/ CallReturns

SpecGraph == Init /\ [][NextGraph]_vars

NextProfiling == DeviceOpens \/ ProfilingOps \/ CallReturns

SpecProfiling == Init /\ [][NextProfiling]_vars

NextDevice == DeviceOpens \/ DeviceOps \/ CallReturns

SpecDevice == Init /\ [][NextDevice]_vars

\* Graph handles opened and closed by the calling thread while other threads
\* are inside xrtGraphRun.
NextConcurrent ==
  \/ xrtAIEDeviceOpen \/ xrtGraphOpen \/ xrtGraphClose
  \/ RunResolves \/ RunCallsDevice \/ RunReturns \/ CallReturns

SpecConcurrent == Init /\ [][NextConcurrent]_vars


\* ------------------------------------------------------------------ claims
CGraphOpens == {"xrtGraphOpen", "xrtGraphOpenExclusive", "xrtGraphOpenShared"}
CGraphOps == {"xrtGraphReset", "xrtGraphTimeStamp", "xrtGraphRun", "xrtGraphWaitDone",
              "xrtGraphWait", "xrtGraphSuspend", "xrtGraphResume", "xrtGraphEnd",
              "xrtGraphUpdateRTP", "xrtGraphReadRTP"}

\* The call in last ran to its return (the process was not ended in it).
Returned == last.exc # Terminate

\* The failure sentinel of a C graph operation.
GraphSentinel == IF last.op = "xrtGraphTimeStamp" THEN UINT64_MAX ELSE -1

\* The invalid-handle error: xrt_core::error(-EINVAL) raised by the registry
\* lookup, before any device call.
InvalidHandleCaught == last.caught = XrtError(-EINVAL) /\ last.dev = <<>>

\* The handle an accepted C open returned is a key of the registry.
C1_OpenRegisters ==
  (last.op \in CGraphOpens /\ last.caught = NoExc)
    => /\ last.ret # XRT_NULL_HANDLE
       /\ last.ret \in DOMAIN graph_cache
       /\ graph_cache[last.ret] \in DOMAIN graph_heap
       /\ get_handle(graph_cache[last.ret]) = last.dev[1].res

\* xrtGraphClose on a registered handle removes the entry.
C1_CloseRemoves ==
  (last.op = "xrtGraphClose" /\ last.tag.known /\ Returned)
    => /\ last.caught = NoExc
       /\ last.h \notin DOMAIN graph_cache

\* C1 as claimed: the handle an accepted open returned is in the registry,
\* xrtGraphClose removes it, and a second xrtGraphClose on the same handle
\* fails with the invalid-handle error.
C1_Original ==
  /\ C1_OpenRegisters
  /\ C1_CloseRemoves
  /\ (last.op = "xrtGraphClose" /\ last.tag.stale) => InvalidHandleCaught

\* C1 amended: the handle an accepted xrtGraphOpen* returned is in the graph
\* registry, xrtGraphClose removes it, and a second xrtGraphClose on it fails
\* with the unexpected-internal error: a generic failure (std::runtime_error)
\* that is logged once, carries no code and leaves errno alone, with no
\* device call and the registry unchanged.
C1_Amended ==
  /\ C1_OpenRegisters
  /\ C1_CloseRemoves
  /\ (last.op = "xrtGraphClose" /\ last.tag.stale)
       => /\ last.caught = StdException
          /\ last.msgs = 1
          /\ ~last.wrote
          /\ last.dev = <<>>
          /\ last.h \notin DOMAIN graph_cache

\* A second close of a closed handle has happened.
C1_Witness ==
  /\ last.op = "xrtGraphClose"
  /\ last.tag.stale
  /\ last.caught = StdException

\* C2: the device's close_graph is called exactly once per graph it opened
\* and never with a handle it does not have open: every close_graph call is
\* made by a close or a destruction with a handle the device holds open, the
\* handles the device holds open are exactly those of the live graph_impl
\* objects, one object each, and every live object has an owner.
C2_CloseExactlyOnce ==
  /\ \A i \in DOMAIN last.dev :
       last.dev[i].fn = "close_graph"
         => /\ last.dev[i].live
            /\ last.op \in {"xrtGraphClose", "xrt::graph::~graph"}
            /\ Len(last.dev) = 1
  /\ ~terminated =>
       /\ dev_graphs = {get_handle(a) : a \in DOMAIN graph_heap}
       /\ \A a, b \in DOMAIN graph_heap : get_handle(a) = get_handle(b) => a = b
       /\ DOMAIN graph_heap = Range(graph_cache) \cup oo_graphs

\* A graph was closed on the device while another is still open.
C2_Witness ==
  /\ ~terminated
  /\ last.dev # <<>>
  /\ last.dev[1].fn = "close_graph"
  /\ dev_graphs # {}

\* C3 as claimed: once xrtGraphClose removed h, every later graph operation
\* on h fails with invalid-handle, whatever was opened since.
C3_Original ==
  (last.op \in CGraphOps /\ last.tag.closed)
    => /\ InvalidHandleCaught
       /\ last.ret = GraphSentinel

\* C3 amended: once xrtGraphClose removed h, every graph operation on h fails
\* with invalid-handle and reaches no graph object until a later open returns
\* the same handle value again (the handle is the address of the graph
\* object, which the allocator may reuse: handles are unique only among the
\* graphs that are open).
C3_Amended ==
  (last.op \in CGraphOps /\ last.tag.stale)
    => /\ InvalidHandleCaught
       /\ last.ret = GraphSentinel
       /\ errno = -EINVAL

\* An operation on a closed handle, made while another graph is open.
C3_Witness ==
  /\ last.op \in CGraphOps
  /\ last.tag.stale
  /\ DOMAIN graph_cache # {}

\* C4: a C graph operation on a handle that is no key of the registry makes
\* no device call, sets errno to -EINVAL and returns its sentinel.
C4_UnknownHandle ==
  (last.op \in CGraphOps /\ ~last.tag.known)
    => /\ last.dev = <<>>
       /\ last.wrote
       /\ errno = -EINVAL
       /\ last.ret = GraphSentinel
       /\ Returned

\* xrtGraphTimeStamp on an unknown handle returned the maximum value.
C4_Witness ==
  /\ last.op = "xrtGraphTimeStamp"
  /\ ~last.tag.known
  /\ last.ret = UINT64_MAX

\* The failure sentinel of a C entry point, by its return type.
CSentinel ==
  CASE last.rtype = "int" -> -1
    [] last.rtype = "u64" -> UINT64_MAX
    [] last.rtype = "handle" -> XRT_NULL_HANDLE
    [] OTHER -> "void"

\* C5: no failure crosses the C surface: every C entry point returns to its
\* caller, and when the device or a registry lookup failed it returns its
\* sentinel and has logged exactly one message.
C5_NoFailureCrosses ==
  last.surface = "C"
    => /\ Returned
       /\ last.caught # NoExc => (last.msgs = 1 /\ last.ret = CSentinel)

\* What holds of every C entry point but xrtGraphClose.
ExceptGraphClose ==
  (last.surface = "C" /\ last.op # "xrtGraphClose")
    => /\ Returned
       /\ last.caught # NoExc => (last.msgs = 1 /\ last.ret = CSentinel)
       /\ last.caught = NoExc => last.msgs = 0

TimeoutWaits == {"xrtGraphWaitDone", "xrt::graph::wait(ms)"}
CycleWaits == {"xrtGraphWait", "xrt::graph::wait(cycles)"}

\* The one device call of the wait in last is fn with the caller's argument,
\* on a graph the device has open.
WaitForwardedTo(fn) ==
  /\ Len(last.dev) = 1
  /\ last.dev[1].fn = fn
  /\ last.dev[1].arg = last.arg
  /\ last.dev[1].live

\* C6 as claimed: on both surfaces a timeout-based wait, timeout 0 included,
\* goes only to the device's wait_graph_done and a cycle-based wait, cycle 0
\* included, only to the device's wait_graph.
C6_Original ==
  /\ (last.op \in TimeoutWaits /\ last.dev # <<>>) => WaitForwardedTo("wait_graph_done")
  /\ (last.op \in CycleWaits /\ last.dev # <<>>) => WaitForwardedTo("wait_graph")

\* C6 amended: the two waits are independent on the C surface
\* (xrtGraphWaitDone goes only to wait_graph_done, timeout 0 included;
\* xrtGraphWait only to wait_graph), and on the object-oriented surface for
\* the cycle-based wait and for every timeout but 0; xrt::graph::wait with a
\* timeout of 0 is forwarded to the device's cycle-based wait_graph with
\* cycle 0.
C6_Amended ==
  /\ (last.op = "xrtGraphWaitDone" /\ last.dev # <<>>)
       => WaitForwardedTo("wait_graph_done")
  /\ (last.op = "xrt::graph::wait(ms)" /\ last.arg # 0 /\ last.dev # <<>>)
       => WaitForwardedTo("wait_graph_done")
  /\ (last.op = "xrt::graph::wait(ms)" /\ last.arg = 0 /\ last.dev # <<>>)
       => WaitForwardedTo("wait_graph")
  /\ (last.op \in CycleWaits /\ last.dev # <<>>) => WaitForwardedTo("wait_graph")
  /\ (last.op \in TimeoutWaits \cup CycleWaits /\ (last.surface = "OO" \/ last.tag.known))
       => last.dev # <<>>

\* xrt::graph::wait was called with a timeout of 0 and reached the device.
C6_Witness ==
  /\ last.op = "xrt::graph::wait(ms)"
  /\ last.arg = 0
  /\ last.dev # <<>>
  /\ last.dev[1].fn = "wait_graph"

\* C7: xrtAIEStartProfiling with an option outside 0..3 returns -1 with
\* errno -EINVAL and no device operation is called during the call.
C7_OptionRejectedBeforeDevice ==
  (last.op = "xrtAIEStartProfiling" /\ (last.arg < 0 \/ last.arg > 3))
    => /\ last.ret = -1
       /\ errno = -EINVAL
       /\ last.dev = <<>>

CProfilingUses == {"xrtAIEReadProfiling", "xrtAIEStopProfiling"}
OOProfilingUses == {"xrt::aie::profiling::read", "xrt::aie::profiling::stop"}

\* The first device call of the call in last is fn on a counter the device
\* has active.
ProfilingForwarded(fn) ==
  /\ last.dev # <<>>
  /\ last.dev[1].fn = fn
  /\ last.dev[1].h # invalid_handle
  /\ last.dev[1].live

\* C8: after a successful start, read asks the device for the counter of the
\* issued handle and returns its value, and the first stop stops that handle
\* and succeeds (when the device does); after that stop a second stop and a
\* read fail with invalid-handle and call neither the device's stop nor its
\* read.
C8_StartReadStop ==
  /\ (last.op = "xrtAIEReadProfiling" /\ last.tag.hist = "started")
       => /\ ProfilingForwarded("read_profiling")
          /\ Len(last.dev) = 1
          /\ last.dev[1].h = last.h
          /\ last.dev[1].out = NoExc => (last.caught = NoExc /\ last.ret = last.dev[1].res)
  /\ (last.op = "xrt::aie::profiling::read" /\ last.tag.hist = "started")
       => /\ ProfilingForwarded("read_profiling")
          /\ Len(last.dev) = 1
          /\ last.dev[1].h = oo_prof[last.h].profiling_hdl
          /\ last.dev[1].out = NoExc => (last.exc = NoExc /\ last.ret = last.dev[1].res)
  /\ (last.op = "xrtAIEStopProfiling" /\ last.tag.hist = "started")
       => /\ ProfilingForwarded("stop_profiling")
          /\ last.dev[1].h = last.h
          /\ last.dev[1].out = NoExc
               => (last.caught = NoExc /\ last.h \notin DOMAIN profiling_cache
                   /\ last.h \notin dev_prof)
  /\ (last.op = "xrt::aie::profiling::stop" /\ last.tag.hist = "started")
       => /\ ProfilingForwarded("stop_profiling")
          /\ Len(last.dev) = 1
          /\ last.dev[1].out = NoExc
               => (last.exc = NoExc /\ oo_prof[last.h].profiling_hdl = invalid_handle
                   /\ last.dev[1].h \notin dev_prof)
  /\ (last.op \in CProfilingUses /\ last.tag.hist = "stopped")
       => /\ InvalidHandleCaught
          /\ last.op = "xrtAIEReadProfiling" => last.ret = UINT64_MAX
  /\ (last.op \in OOProfilingUses /\ last.tag.hist = "stopped")
       => /\ last.exc = XrtError(-EINVAL)
          /\ last.dev = <<>>

\* A second stop on a stopped xrt::aie::profiling object.
C8_Witness ==
  /\ last.op = "xrt::aie::profiling::stop"
  /\ last.tag.hist = "stopped"
  /\ last.exc = XrtError(-EINVAL)

\* C9: read and stop before any start has succeeded fail without a device
\* call: with xrt_core::error(-EINVAL) on the object-oriented surface, with
\* invalid-handle (read returning the maximum value) on the C surface.
C9_BeforeStart ==
  /\ (last.op \in OOProfilingUses /\ last.tag.hist = "fresh")
       => /\ last.exc = XrtError(-EINVAL)
          /\ last.dev = <<>>
  /\ (last.op \in CProfilingUses /\ last.tag.hist = "fresh")
       => /\ InvalidHandleCaught
          /\ errno = -EINVAL
          /\ last.op = "xrtAIEReadProfiling" => last.ret = UINT64_MAX

\* A stop on an object that was never started.
C9_Witness ==
  /\ last.op = "xrt::aie::profiling::stop"
  /\ last.tag.hist = "fresh"
  /\ last.exc = XrtError(-EINVAL)

\* C10: no double release: the device's stop_profiling is never called with
\* a handle it issued and has already released; an object that was stopped
\* holds invalid_handle, and every other handle an object holds is active on
\* the device.
C10_NoDoubleRelease ==
  /\ \A i \in DOMAIN last.dev :
       (last.dev[i].fn = "stop_profiling" /\ last.dev[i].h # invalid_handle)
         => last.dev[i].live
  /\ \A o \in DOMAIN oo_prof :
       /\ oo_prof_hist[o] = "stopped" => oo_prof[o].profiling_hdl = invalid_handle
       /\ oo_prof[o].profiling_hdl # invalid_handle => oo_prof[o].profiling_hdl \in dev_prof
  /\ \A k \in DOMAIN profiling_cache :
       /\ profiling_cache[k].profiling_hdl = k
       /\ k \in dev_prof

\* A stopped object was destroyed while another counter is active.
C10_Witness ==
  /\ last.op = "xrt::aie::profiling::~profiling"
  /\ last.tag.hist = "stopped"
  /\ dev_prof # {}

\* The calls that destroy a graph_impl or a profiling_impl.
TeardownCalls == {"xrtGraphClose", "xrt::graph::~graph", "xrtAIEStopProfiling",
                  "xrtAIEStartProfiling", "xrt::aie::profiling::~profiling"}

\* The device failed a release call (close_graph, stop_profiling) made in
\* the call in last.
ReleaseFailed ==
  \E i \in DOMAIN last.dev :
    /\ last.dev[i].fn \in {"close_graph", "stop_profiling"}
    /\ last.dev[i].out # NoExc

\* C11: teardown never fails: a call that destroys a graph or a profiling
\* object and in which the device failed its release call still completes
\* normally (it returns to its caller; a destructor raises nothing).
C11_TeardownNeverFails ==
  (last.op \in TeardownCalls /\ ReleaseFailed)
    => /\ Returned
       /\ last.surface = "OO" => last.exc = NoExc

\* The profiling half of C11: the destructor of a profiling object swallows
\* the failure of the device's stop_profiling.
ProfilingTeardownSuppressed ==
  (last.op \in {"xrtAIEStartProfiling", "xrt::aie::profiling::~profiling"} /\ ReleaseFailed)
    => Returned /\ last.exc = NoExc

\* The last C call failed: it caught a failure at its boundary.
CFailed == last.surface = "C" /\ last.caught # NoExc

\* C12: whenever a C entry point fails, that call has set errno.
C12_ErrnoSetOnFailure == CFailed => last.wrote

\* What holds in place of C12: a failing C entry point sets errno when the
\* failure it caught is a structured one carrying a code, and then to that
\* code; when it caught a generic failure (of the device, or the
\* unexpected-internal error of a second xrtGraphClose) it logs the message
\* and does not set errno.
ErrnoSetWhenCoded ==
  CFailed
    => /\ last.msgs = 1
       /\ last.caught.kind = "xrt_core::error" => (last.wrote /\ errno = last.caught.code)
       /\ last.caught.kind = "std::exception" => ~last.wrote

\* C13: a call of a C entry point assigns errno exactly when it caught a
\* structured failure, and then the failure's code; a call that succeeded
\* or caught a generic failure leaves errno as it was.
C13_ErrnoFrame ==
  [][(last.op = "none" /\ last'.surface = "C")
       => /\ last'.wrote <=> last'.caught.kind = "xrt_core::error"
          /\ errno' = IF last'.caught.kind = "xrt_core::error"
                      THEN last'.caught.code ELSE errno]_vars

\* A C call succeeded while errno holds the code of an earlier failure.
C13_Witness ==
  /\ last.surface = "C"
  /\ last.op = "xrtGraphRun"
  /\ last.caught = NoExc
  /\ Returned
  /\ errno = -5

\* C14: while a thread is inside an operation on a graph handle it has
\* resolved, the graph object stays valid whatever another thread closes:
\* the object exists, the device still holds its graph open (close_graph is
\* called only when the last owner lets go), every device call of the
\* operation was made on an open graph, and the device's open graphs are
\* exactly those of the live objects.
C14_InFlightValid ==
  ~terminated
    => /\ \A t \in DOMAIN inflight :
            /\ inflight[t].ptr \in DOMAIN graph_heap
            /\ get_handle(inflight[t].ptr) \in dev_graphs
            /\ \A i \in DOMAIN inflight[t].dev : inflight[t].dev[i].live
       /\ dev_graphs = {get_handle(a) : a \in DOMAIN graph_heap}

\* A thread has made its device call on a graph whose handle the calling
\* thread closed after the thread had resolved it.
C14_Witness ==
  /\ ~terminated
  /\ \E t \in DOMAIN inflight :
       /\ inflight[t].pc = "called"
       /\ inflight[t].h \notin DOMAIN graph_cache
       /\ inflight[t].h \in closed_handles
       /\ inflight[t].dev[1].fn = "run_graph"

CDeviceOpens == {"xrtAIEDeviceOpen", "xrtAIEDeviceOpenExclusive", "xrtAIEDeviceOpenShared"}

\* C15: when an AIE device open has opened the device and the context
\* cannot be established, the call returns a null handle and the device
\* stays open; when both steps succeed the handle returned is the one of the
\* opened device and open_aie_context was called on it before the return.
C15_ContextFailureKeepsDevice ==
  last.op \in CDeviceOpens
    => /\ (last.dev # <<>> /\ last.dev[1].out # NoExc)
            => /\ last.ret = XRT_NULL_HANDLE
               /\ last.dev[1].h \in devices
       /\ last.caught = NoExc
            => /\ Len(last.dev) = 1
               /\ last.dev[1].fn = "open_aie_context"
               /\ last.dev[1].out = NoExc
               /\ last.ret = last.dev[1].h
               /\ last.ret # XRT_NULL_HANDLE
               /\ last.ret \in devices

\* The context could not be established on a device that was opened.
C15_Witness ==
  /\ last.op \in CDeviceOpens
  /\ last.dev # <<>>
  /\ last.dev[1].out # NoExc
  /\ last.ret = XRT_NULL_HANDLE
  /\ last.dev[1].h \in devices

\* C16: the caller of a timeout-based wait receives the status the device's
\* wait_graph_done reported, on both surfaces, and on the C surface that
\* status differs from the failure sentinel -1.
C16_WaitStatusReturned ==
  (/\ last.op \in TimeoutWaits
   /\ last.dev # <<>>
   /\ last.dev[1].fn = "wait_graph_done"
   /\ last.dev[1].out = NoExc)
    => /\ last.rtype = "int"
       /\ last.ret = last.dev[1].res
       /\ last.surface = "C" => last.ret # -1

\* The C half of C16: xrtGraphWaitDone returns the status the device
\* reported.
WaitDoneStatusReturned ==
  (last.op = "xrtGraphWaitDone" /\ last.dev # <<>> /\ last.dev[1].out = NoExc)
    => /\ last.dev[1].fn = "wait_graph_done"
       /\ last.ret = last.dev[1].res

BlockingSyncs == {"xrtSyncBOAIE", "xrtAIESyncBO"}

\* The call in last made the one device call fn, on the port it was given,
\* and the device did not fail it.
ForwardedOnce(fn) ==
  /\ Len(last.dev) = 1
  /\ last.dev[1].fn = fn
  /\ last.dev[1].arg = last.arg
  /\ last.dev[1].out = NoExc

\* C17: xrtSyncBOAIENB returns 0 once the device's non-blocking sync has
\* taken the transfer, without a wait of any kind; xrtGMIOWait returns 0
\* only after the device's wait_gmio on that port returned, when the port
\* has no transfer left to complete; the blocking xrtSyncBOAIE and
\* xrtAIESyncBO return 0 only after the device's blocking sync returned.
C17_NonBlockingSync ==
  /\ (last.op = "xrtSyncBOAIENB" /\ last.ret = 0) => ForwardedOnce("sync_aie_bo_nb")
  /\ (last.op = "xrtGMIOWait" /\ last.ret = 0)
       => /\ ForwardedOnce("wait_gmio")
          /\ last.arg \notin pending
  /\ (last.op \in BlockingSyncs /\ last.ret = 0) => ForwardedOnce("sync_aie_bo")

\* xrtSyncBOAIENB has returned 0 while the device has not completed the
\* transfer.
C17_Witness ==
  /\ last.op = "xrtSyncBOAIENB"
  /\ last.ret = 0
  /\ last.arg \in pending

\* A wait on a port returned 0 while another port has a transfer to complete.
WaitReturnedOnIdlePort ==
  /\ last.op = "xrtGMIOWait"
  /\ last.ret = 0
  /\ pending # {}

\* The C entry points that add or remove a registry entry.
RegistryMutators ==
  CGraphOpens \cup {"xrtGraphClose", "xrtAIEStartProfiling", "xrtAIEStopProfiling"}

\* C18: the two registries change only in open/close and start/stop: a call
\* of any other C entry point leaves both as they were, whether it succeeds
\* or fails; a failed graph open and a failed profiling start add no entry;
\* and an xrtAIEStopProfiling whose device call failed leaves the entry in
\* place.
C18_RegistryFrame ==
  [][(last.op = "none" /\ last'.surface = "C")
       => LET c == last'
              same == graph_cache' = graph_cache /\ profiling_cache' = profiling_cache
          IN /\ c.op \notin RegistryMutators => same
             /\ (c.op \in CGraphOpens \cup {"xrtAIEStartProfiling"} /\ c.caught # NoExc)
                  => same
             /\ (c.op = "xrtAIEStopProfiling" /\ c.tag.known /\ c.dev[1].out # NoExc)
                  => (same /\ c.h \in DOMAIN profiling_cache')]_vars

\* An xrtAIEStopProfiling failed in the device and its handle is still
\* registered.
C18_Witness ==
  /\ last.op = "xrtAIEStopProfiling"
  /\ last.dev # <<>>
  /\ last.dev[1].out # NoExc
  /\ last.h \in DOMAIN profiling_cache

\* The access mode an open entry point is named for.
ModeOf(op) ==
  CASE op \in {"xrtGraphOpen", "xrtAIEDeviceOpen"} -> "primary"
    [] op \in {"xrtGraphOpenExclusive", "xrtAIEDeviceOpenExclusive"} -> "exclusive"
    [] op \in {"xrtGraphOpenShared", "xrtAIEDeviceOpenShared"} -> "shared"

\* C19: each graph open and each AIE device open passes the access mode it
\* is named for to the device, and does not reject an open the device
\* accepted.
C19_AccessModePassed ==
  (last.op \in CGraphOpens \cup CDeviceOpens /\ last.dev # <<>>)
    => /\ Len(last.dev) = 1
       /\ last.dev[1].fn = IF last.op \in CGraphOpens THEN "open_graph"
                           ELSE "open_aie_context"
       /\ last.dev[1].arg = ModeOf(last.op)
       /\ last.dev[1].out = NoExc
            => (last.caught = NoExc /\ last.ret # XRT_NULL_HANDLE)

\* The exclusive graph open reached the device and was accepted.
C19_Witness ==
  /\ last.op = "xrtGraphOpenExclusive"
  /\ last.dev # <<>>
  /\ last.dev[1].arg = "exclusive"
  /\ last.caught = NoExc

\* C20: every entry (k, obj) of the profiling registry has k different from
\* invalid_handle and obj holding the handle k; the keys are the handles
\* that were started and not stopped since.
C20_ProfilingRegistryKeys ==
  \A k \in DOMAIN profiling_cache :
    /\ k # invalid_handle
    /\ profiling_cache[k].profiling_hdl = k
    /\ k \in issued_prof \ stopped_prof

\* A start was accepted and two counters are registered.
C20_Witness ==
  /\ Cardinality(DOMAIN profiling_cache) = 2
  /\ last.op = "xrtAIEStartProfiling"
  /\ last.caught = NoExc

\* ------------------------------------------------------------------ C21
\* The device's stop_profiling calls of the last call.
DeviceStops == {i \in DOMAIN last.dev : last.dev[i].fn = "stop_profiling"}

\* C21: the device's stop_profiling is only ever invoked with a handle the
\* device issued and still has active; never with the sentinel -1, whatever
\* profiling object the call destroys.
C21_StopOnlyActiveHandle ==
  \A i \in DeviceStops : /\ last.dev[i].h # invalid_handle
                         /\ last.dev[i].h \in ProfHandles
                         /\ last.dev[i].live

\* ------------------------------------------------------------------ C22
\* The handles the device issued to the destroyed profiling object that
\* neither an earlier stop nor the destructor passed to stop_profiling.
NeverStopped == last.tag.unstopped \ {last.dev[i].h : i \in DeviceStops}

\* C22: no device counter leaks through a profiling object: once an
\* xrt::aie::profiling object has been destroyed, every handle the device
\* issued to it has been passed to the device's stop_profiling, whatever
\* start, read and stop calls were made on it.
C22_NoCounterLeak ==
  last.op = "xrt::aie::profiling::~profiling" => NeverStopped = {}

====
